---- MODULE Spec2Model ----
(***************************************************************************)
(* Model of fritzbox_exporter.py: setup() builds the list of               *)
(* FritzboxMetric objects from the configuration, run() polls the device   *)
(* for each of them in turn, for ever, and pushes the values to the        *)
(* prometheus Gauge and Counter objects.                                   *)
(***************************************************************************)
EXTENDS Integers, Sequences, FiniteSets, TLC

\* ------------------------------------------------------------------ bounds
\* Longest configuration (number of metric definitions) explored.
MaxMetrics == 2
\* Device values of an ordinary parameter range over 0..MaxRaw.
MaxRaw == 1
\* Number of loop iterations of run() that are followed.
MaxSamples == 4

\* --------------------------------------------------------- program constants
\* time.sleep((10 + random.randrange(0, 10)) / len(fritzbox_metrics))
PauseBase == 10
JitterStop == 10

\* Python's None (a key that dict.get does not find).
None == "<None>"
\* The local variable `metric` of setup() before its first assignment.
Unbound == "<unbound>"

\* ------------------------------------------------------------ configuration
Keys == {"service", "action", "param", "type"}

\* dict.get(key): the value, or None when the key is absent.
Get(info, key) == IF key \in DOMAIN info THEN info[key] ELSE None

\* str(x) for the values a "type" entry takes here.
Str(x) == IF x = None THEN "None" ELSE x

\* str.lower() on the type strings of the model.
Lower(s) ==
  CASE s = "Gauge" -> "gauge"
    [] s = "GAUGE" -> "gauge"
    [] s = "Counter" -> "counter"
    [] s = "COUNTER" -> "counter"
    [] s = "None" -> "none"
    [] OTHER -> s

\* A complete definition of the configuration file.
Info(param, type) ==
  [k \in Keys |-> CASE k = "service" -> "svc"
                    [] k = "action" -> "act"
                    [] k = "param" -> param
                    [] k = "type" -> type]

\* The same definition with one key left out.
Without(info, key) == [k \in (DOMAIN info) \ {key} |-> info[k]]

ValidInfos == {Info("p", t) : t \in {"gauge", "COUNTER"}}

InvalidInfos ==
  {Info("p", "histogram")} \cup {Without(Info("p", "gauge"), k) : k \in Keys}

Infos == ValidInfos \cup InvalidInfos

MetricName(k) == CASE k = 1 -> "m1" [] k = 2 -> "m2" [] k = 3 -> "m3" [] OTHER -> "m4"

\* The configurations explored: up to MaxMetrics definitions under distinct
\* names (the keys of a dict), at most one of them invalid.
Configs ==
  UNION {
    {[k \in 1..n |-> [name |-> MetricName(k), info |-> f[k]]] :
       f \in {g \in [1..n -> Infos] :
                Cardinality({k \in 1..n : g[k] \in InvalidInfos}) <= 1}}
    : n \in 1..MaxMetrics}

\* The two metrics of the end-to-end scenarios.
Traffic == [name |-> "traffic", info |-> Info("traffic", "counter")]
Signal == [name |-> "signal", info |-> Info("signal", "gauge")]
ScenarioConfigs == {<<Traffic>>, <<Signal>>, <<Traffic, Signal>>}

\* ------------------------------------------------------------------- device
\* The values the device reports for a parameter.
DeviceValues(param) ==
  CASE param = "traffic" -> {40, 90, 100, 140} \cup (0..MaxRaw)
    [] param = "signal" -> {-80, -70, -65, 0}
    [] OTHER -> 0..MaxRaw

\* The outcomes of conn.call_action(service, action) followed by
\* response.get(param): the call raises, or it returns a mapping, which holds
\* the parameter or does not. A response is a function from names to values.
Raises == [raised |-> TRUE, response |-> <<>>]
Returns(response) == [raised |-> FALSE, response |-> response]

CallOutcomes(m) ==
  IF m.service = None \/ m.action = None
  THEN {Raises}
  ELSE {Raises, Returns(<<>>)}
       \cup (IF m.param = None THEN {}
             ELSE {Returns([p \in {m.param} |-> v]) : v \in DeviceValues(m.param)})

\* ---------------------------------------------------------------- variables
VARIABLES
  config,            \* the metric definitions read from the configuration file
  pc,                \* "setup", "run" or "crashed" (an exception left main())
  exc,               \* the exception that ended the process, or "none"
  registry,          \* the prometheus objects: name -> [kind, value]
  fritzbox_metrics,  \* the list setup() returned
  idx,               \* position of run()'s for loop in fritzbox_metrics
  samples,           \* the outcomes of the loop iterations so far
  log,               \* the logging.info records of run()
  slept              \* time slept in the current round, a fraction num/den

vars == <<config, pc, exc, registry, fritzbox_metrics, idx, samples, log, slept>>

\* ------------------------------------------------------------------ setup()
\* FritzboxMetric.__init__: old_value exists only for a Counter.
FritzboxMetric(name, service, action, param, metric, reg) ==
  LET base == [name |-> name, service |-> service, action |-> action,
               param |-> param, metric |-> metric]
  IN IF reg[metric].kind = "Counter"
     THEN base @@ [old_value |-> 0]
     ELSE base

\* The loop of setup() from definition k on; `metric` is the local variable
\* that the two `if`s assign, which keeps its value from one iteration to the
\* next when neither fires.
RECURSIVE setup_loop(_, _, _, _, _)
setup_loop(metrics, k, metric, acc, reg) ==
  IF k > Len(metrics)
  THEN [exc |-> "none", fritzbox_metrics |-> acc, registry |-> reg]
  ELSE
    LET name == metrics[k].name
        info == metrics[k].info
        service == Get(info, "service")
        action == Get(info, "action")
        param == Get(info, "param")
        metric_type == Lower(Str(Get(info, "type")))
        reg1 == IF metric_type = "gauge"
                THEN reg @@ (name :> [kind |-> "Gauge", value |-> 0])
                ELSE reg
        metric1 == IF metric_type = "gauge" THEN name ELSE metric
        reg2 == IF metric_type = "counter"
                THEN reg1 @@ (name :> [kind |-> "Counter", value |-> 0])
                ELSE reg1
        metric2 == IF metric_type = "counter" THEN name ELSE metric1
    IN IF metric2 = Unbound
       THEN [exc |-> "UnboundLocalError", fritzbox_metrics |-> <<>>,
             registry |-> reg2]
       ELSE setup_loop(metrics, k + 1, metric2,
                       Append(acc, FritzboxMetric(name, service, action, param,
                                                  metric2, reg2)),
                       reg2)

setup(metrics) == setup_loop(metrics, 1, Unbound, <<>>, <<>>)

\* main(): setup() and, when it returns, the call of run().
Setup ==
  /\ pc = "setup"
  /\ LET r == setup(config)
     IN /\ pc' = IF r.exc = "none" THEN "run" ELSE "crashed"
        /\ exc' = r.exc
        /\ registry' = r.registry
        /\ fritzbox_metrics' = r.fritzbox_metrics
  /\ idx' = 1
  /\ UNCHANGED <<config, samples, log, slept>>

\* -------------------------------------------------------------------- run()
\* Variant: response.get(metric.param, 0), a default in place of None.
ResponseGet_default(response, param) ==
  IF param \in DOMAIN response THEN <<response[param]>> ELSE <<0>>

\* response.get(metric.param): <<v>> for a value, <<>> for None.
ResponseGet(response, param) ==
  IF param \in DOMAIN response THEN <<response[param]>> ELSE <<>>

\* Variant: the overflow estimate is value, not value * 2.
Diff_single(value, old_value) ==
  LET diff == value - old_value
  IN IF diff < 0 THEN value ELSE diff

\* Variant: no overflow handling.
Diff_plain(value, old_value) == value - old_value

\* Variant: the overflow estimate is the size of the drop.
Diff_abs(value, old_value) ==
  LET diff == value - old_value
  IN IF diff < 0 THEN 0 - diff ELSE diff

\* diff = value - metric.old_value; if diff < 0: diff = value * 2
Diff(value, old_value) ==
  LET diff == value - old_value
  IN IF diff < 0 THEN value * 2 ELSE diff

\* Variant: the gauge accumulates.
GaugeSet_add(reg, metric, value) == [reg EXCEPT ![metric].value = @ + value]

\* Gauge.set(value): the value is overwritten.
GaugeSet(reg, metric, value) == [reg EXCEPT ![metric].value = value]

\* Counter.inc(amount): the amount is added.
CounterInc(reg, metric, amount) == [reg EXCEPT ![metric].value = @ + amount]

\* An exception raised by a statement: nothing is assigned from there on.
Raise(e, m, reg) == [exc |-> e, m |-> m, reg |-> reg, logged |-> <<>>]

\* One metric's handling with the outcome o of the remote call: the state
\* after it, what it logged and the exception it raised, if any.
Handle(m, reg, o) ==
  IF o.raised
  THEN Raise("FritzConnectionException", m, reg)
  ELSE
    LET value == ResponseGet(o.response, m.param)
    IN IF reg[m.metric].kind = "Gauge"
       THEN \* Gauge.set(value) is float(value): a TypeError on None
            IF value = <<>>
            THEN Raise("TypeError", m, reg)
            ELSE [exc |-> "none", m |-> m,
                  reg |-> GaugeSet(reg, m.metric, value[1]),
                  logged |-> <<[metric |-> m.metric, op |-> "Updated",
                                by |-> value[1]]>>]
       ELSE \* Counter: value - metric.old_value is a TypeError on None
            IF value = <<>>
            THEN Raise("TypeError", m, reg)
            ELSE
              LET diff == Diff(value[1], m.old_value)
                  m1 == [m EXCEPT !.old_value = value[1]]
              IN \* Counter.inc(amount) raises ValueError on amount < 0
                 IF diff < 0
                 THEN Raise("ValueError", m1, reg)
                 ELSE [exc |-> "none", m |-> m1,
                       reg |-> CounterInc(reg, m.metric, diff),
                       logged |-> <<[metric |-> m.metric, op |-> "Incremented",
                                     by |-> diff]>>]

\* Variant: the pause is not divided by the number of metrics.
Pause_undivided(j, n) == [num |-> PauseBase + j, den |-> 1]

\* (10 + random.randrange(0, 10)) / len(fritzbox_metrics), as a fraction.
Pause(j, n) == [num |-> PauseBase + j, den |-> n]

\* Sum of two fractions, not reduced.
Plus(a, b) == [num |-> a.num * b.den + b.num * a.den, den |-> a.den * b.den]

Zero == [num |-> 0, den |-> 1]

\* One iteration of the for loop of run(): the remote call, the routing of
\* the value and the pause. An exception ends the process.
RunIteration ==
  /\ pc = "run"
  /\ Len(fritzbox_metrics) > 0
  /\ Len(samples) < MaxSamples
  /\ LET m == fritzbox_metrics[idx]
         n == Len(fritzbox_metrics)
     IN \E o \in CallOutcomes(m), j \in 0..(JitterStop - 1) :
          LET h == Handle(m, registry, o)
          IN /\ samples' = Append(samples, [i |-> idx, outcome |-> o])
             /\ registry' = h.reg
             /\ fritzbox_metrics' = [fritzbox_metrics EXCEPT ![idx] = h.m]
             /\ log' = log \o h.logged
             /\ exc' = h.exc
             /\ IF h.exc = "none"
                THEN /\ pc' = "run"
                     /\ idx' = IF idx = n THEN 1 ELSE idx + 1
                     /\ slept' = Plus(IF idx = 1 THEN Zero ELSE slept, Pause(j, n))
                ELSE /\ pc' = "crashed"
                     /\ idx' = idx
                     /\ slept' = slept
  /\ UNCHANGED config

\* ------------------------------------------------------------ specifications
InitWith(cs) ==
  /\ config \in cs
  /\ pc = "setup"
  /\ exc = "none"
  /\ registry = <<>>
  /\ fritzbox_metrics = <<>>
  /\ idx = 1
  /\ samples = <<>>
  /\ log = <<>>
  /\ slept = Zero

Init == InitWith(Configs)

Next == Setup \/ RunIteration

Spec == Init /\ [][Next]_vars

\* The end-to-end scenarios: the metrics "traffic" and "signal".
ScenarioInit == InitWith(ScenarioConfigs)

ScenarioSpec == ScenarioInit /\ [][Next]_vars
\* ------------------------------------------------------- notions of the claims
\* The step just taken was an iteration of run()'s loop.
Sampled == Len(samples') = Len(samples) + 1

\* The record of the latest iteration, in the next state of a step.
Latest == samples'[Len(samples')]

\* A sample fails when the remote call raises or the response lacks the
\* metric's parameter.
Failed(s) ==
  \/ s.outcome.raised
  \/ fritzbox_metrics[s.i].param \notin DOMAIN s.outcome.response

\* The raw value of a sample that did not fail.
RawValue(s) == s.outcome.response[fritzbox_metrics[s.i].param]

\* The kind of the exported object entry i holds.
KindOf(i) == registry[fritzbox_metrics[i].metric].kind

\* A definition the configuration contract rejects: a required field is
\* missing or the type is neither "gauge" nor "counter", whatever the case.
InvalidInfo(info) ==
  \/ ~(Keys \subseteq DOMAIN info)
  \/ Lower(info["type"]) \notin {"gauge", "counter"}

InvalidConfig == \E k \in 1..Len(config) : InvalidInfo(config[k].info)

\* ------------------------------------------------------------------------ C1
\* C1: when the sample of a metric fails (the remote call raises or the
\* parameter is absent from the response), the polling loop stays alive and
\* goes on to the next metric in registry order. Stated for the valid
\* configurations.
C1_FailureContained ==
  [][(~InvalidConfig /\ Sampled /\ Failed(Latest))
       => /\ pc' = "run"
          /\ idx' = IF idx = Len(fritzbox_metrics) THEN 1 ELSE idx + 1]_vars

\* ------------------------------------------------------------------------ C4
\* C4: a configuration with an invalid definition, at whatever position, makes
\* setup() fail: no list of metrics is returned and no remote call is issued.
C4_InvalidConfigIsFatal ==
  (pc # "setup" /\ InvalidConfig)
    => (pc = "crashed" /\ fritzbox_metrics = <<>> /\ samples = <<>>)

\* ------------------------------------------------------------------------ C6
\* C6: the scheduler has no terminal state: once run() has begun, the next
\* iteration of the loop can always be taken, also after a failed sample, so
\* that the failed metric is sampled again in the next round. Stated for the
\* valid configurations.
C6_NoTerminalState ==
  (/\ ~InvalidConfig
   /\ pc # "setup" /\ fritzbox_metrics # <<>> /\ Len(samples) < MaxSamples)
    => ENABLED RunIteration

\* ----------------------------------------------------------------------- C10
\* C10: after setup() has returned, no two entries share an exported object,
\* the object's kind is the entry's configured type, and an entry has an
\* old_value exactly when its configured type is counter.
ConfiguredType(k) == Lower(Str(Get(config[k].info, "type")))

C10_OneToOne ==
  pc = "run" =>
    /\ Len(fritzbox_metrics) = Len(config)
    /\ \A a, b \in 1..Len(fritzbox_metrics) :
         a # b => fritzbox_metrics[a].metric # fritzbox_metrics[b].metric
    /\ \A k \in 1..Len(fritzbox_metrics) :
         /\ KindOf(k) = "Gauge" <=> ConfiguredType(k) = "gauge"
         /\ KindOf(k) = "Counter" <=> ConfiguredType(k) = "counter"
         /\ "old_value" \in DOMAIN fritzbox_metrics[k]
              <=> ConfiguredType(k) = "counter"
\* ------------------------------------------------------------------------ C2
\* C2: one reconciliation step of a counter with stored value a and new raw
\* value b pushes b - a when b >= a and 2 * b when b < a, and stores b.
C2_Reconcile ==
  [][(Sampled /\ ~Failed(Latest) /\ KindOf(idx) = "Counter")
       => LET m == fritzbox_metrics[idx]
              a == m.old_value
              b == RawValue(Latest)
              inc == IF b >= a THEN b - a ELSE 2 * b
          IN /\ log' = Append(log, [metric |-> m.metric, op |-> "Incremented",
                                    by |-> inc])
             /\ registry'[m.metric].value = registry[m.metric].value + inc
             /\ fritzbox_metrics'[idx].old_value = b]_vars

\* A counter was sampled below its stored value, and then above it.
C2_Witness ==
  /\ Len(fritzbox_metrics) = 1
  /\ Len(samples) = 3
  /\ \A k \in 1..3 : ~Failed(samples[k])
  /\ KindOf(1) = "Counter"
  /\ RawValue(samples[1]) > RawValue(samples[2])
  /\ RawValue(samples[2]) > 0
  /\ RawValue(samples[3]) > RawValue(samples[2])
  /\ log[2].by = 2 * RawValue(samples[2])
  /\ fritzbox_metrics[1].old_value = RawValue(samples[3])

\* ------------------------------------------------------------------------ C3
\* C3: every increment passed to a counter's inc() is non-negative (inc()
\* never rejects one), so no counter's total ever decreases.
C3_Monotonic ==
  /\ [](exc # "ValueError")
  /\ [](\A k \in 1..Len(log) : log[k].op = "Incremented" => log[k].by >= 0)
  /\ [][\A c \in DOMAIN registry :
          (c \in DOMAIN registry' /\ registry[c].kind = "Counter")
            => registry'[c].value >= registry[c].value]_vars

\* A counter was sampled below its stored value and has been incremented.
C3_Witness ==
  /\ Len(samples) >= 2
  /\ \E k \in 1..(Len(samples) - 1) : \E l \in (k + 1)..Len(samples) :
       /\ samples[k].i = samples[l].i
       /\ KindOf(samples[k].i) = "Counter"
       /\ ~Failed(samples[k]) /\ ~Failed(samples[l])
       /\ RawValue(samples[l]) < RawValue(samples[k])
  /\ \E k \in 1..Len(log) : log[k].op = "Incremented" /\ log[k].by > 0

\* ------------------------------------------------------------------------ C5
\* C5: a failed sample changes no exported value and no old_value, of the
\* failing metric or of any other.
C5_FailureFrame ==
  [][(Sampled /\ Failed(Latest))
       => (registry' = registry /\ fritzbox_metrics' = fritzbox_metrics)]_vars

\* A sample failed when exported values and an old_value were not 0.
C5_Witness ==
  /\ samples # <<>>
  /\ Failed(samples[Len(samples)])
  /\ \E c \in DOMAIN registry : registry[c].value # 0
  /\ \E k \in 1..Len(fritzbox_metrics) :
       /\ "old_value" \in DOMAIN fritzbox_metrics[k]
       /\ fritzbox_metrics[k].old_value # 0

\* ------------------------------------------------------------------------ C7
\* The raw values of the samples of entry i that did not fail, in order.
RECURSIVE SuccessValues(_, _)
SuccessValues(i, n) ==
  IF n = 0 THEN <<>>
  ELSE LET s == samples[n]
       IN IF s.i = i /\ ~Failed(s)
          THEN Append(SuccessValues(i, n - 1), RawValue(s))
          ELSE SuccessValues(i, n - 1)

\* The increments the claim gives for raw values vals after the value last.
RECURSIVE Increments(_, _)
Increments(vals, last) ==
  IF vals = <<>> THEN <<>>
  ELSE LET b == Head(vals)
       IN <<IF b >= last THEN b - last ELSE 2 * b>>
            \o Increments(Tail(vals), b)

RECURSIVE SeqSum(_)
SeqSum(q) == IF q = <<>> THEN 0 ELSE Head(q) + SeqSum(Tail(q))

\* The amounts logged for the exported object c, in order.
LoggedFor(c) ==
  LET sel == SelectSeq(log, LAMBDA r : r.metric = c)
  IN [k \in 1..Len(sel) |-> sel[k].by]

\* C7: a counter that starts at old_value 0 and total 0 has, after any
\* successful samples, the sum of the increments as its total; the samples
\* 100, 140, 40, 90 give the increments 100, 40, 80, 50, old_value 90 and
\* the total 270.
C7_CounterTotal ==
  \A i \in 1..Len(fritzbox_metrics) :
    KindOf(i) = "Counter" =>
      LET m == fritzbox_metrics[i]
          vals == SuccessValues(i, Len(samples))
      IN /\ registry[m.metric].value = SeqSum(Increments(vals, 0))
         /\ LoggedFor(m.metric) = Increments(vals, 0)
         /\ vals = <<100, 140, 40, 90>> =>
              /\ LoggedFor(m.metric) = <<100, 40, 80, 50>>
              /\ m.old_value = 90
              /\ registry[m.metric].value = 270

\* The scenario of the metric "traffic" has run.
C7_Witness ==
  /\ Len(fritzbox_metrics) = 1
  /\ KindOf(1) = "Counter"
  /\ SuccessValues(1, Len(samples)) = <<100, 140, 40, 90>>
  /\ registry["traffic"].value = 270

\* ------------------------------------------------------------------------ C8
\* C8: a successful sample of a gauge leaves the raw value as the gauge's
\* value, changes no other exported value and no entry (so no old_value); the
\* samples -70, -65, -80 leave the value -80.
C8_GaugeOverwrite ==
  /\ [][(Sampled /\ ~Failed(Latest) /\ KindOf(idx) = "Gauge")
          => /\ registry' =
                  [registry EXCEPT ![fritzbox_metrics[idx].metric].value =
                                     RawValue(Latest)]
             /\ fritzbox_metrics' = fritzbox_metrics
             /\ "old_value" \notin DOMAIN fritzbox_metrics'[idx]]_vars
  /\ [](\A i \in 1..Len(fritzbox_metrics) :
          (KindOf(i) = "Gauge"
             /\ SuccessValues(i, Len(samples)) = <<-70, -65, -80>>)
            => registry[fritzbox_metrics[i].metric].value = -80)

\* The scenario of the metric "signal" has run.
C8_Witness ==
  /\ Len(fritzbox_metrics) = 1
  /\ KindOf(1) = "Gauge"
  /\ SuccessValues(1, Len(samples)) = <<-70, -65, -80>>
  /\ registry["signal"].value = -80

\* ------------------------------------------------------------------------ C9
\* C9: every completed handling of a metric is followed by one pause of
\* (10 + j) / N time units with j in 0..9, and the pauses of a full round add
\* up to at least 10 and at most 20 time units.
C9_Pacing ==
  /\ [][(Sampled /\ pc' = "run")
          => \E j \in 0..9 :
               slept' = Plus(IF idx = 1 THEN Zero ELSE slept,
                             [num |-> 10 + j, den |-> Len(fritzbox_metrics)])]_vars
  /\ []((pc = "run" /\ idx = 1 /\ samples # <<>>)
          => (10 * slept.den <= slept.num /\ slept.num <= 20 * slept.den))

\* A full round of more than one metric has been slept with the longest pauses.
C9_Witness ==
  /\ pc = "run" /\ idx = 1
  /\ Len(fritzbox_metrics) >= 2
  /\ Len(samples) >= Len(fritzbox_metrics)
  /\ slept.num = 19 * slept.den
====
